---- MODULE Spec2Model ----
(***************************************************************************)
(* build_assimp.py: patch the two architecture variables of assimp's iOS   *)
(* build script into a temporary sibling script, run it with sh from its   *)
(* own directory, and remove it.                                           *)
(*                                                                         *)
(* Text is a sequence of one-character strings.  A path is a sequence of   *)
(* components, resolved against the working directory of the process that  *)
(* uses it.  The filesystem maps the absolute paths that exist to inode    *)
(* numbers; inodes holds each inode's content, so that an open handle      *)
(* keeps addressing its file after the path was unlinked.                  *)
(***************************************************************************)
EXTENDS Integers, Sequences, FiniteSets, TLC

VARIABLES
    fs,                 \* absolute path -> inode, for the paths that exist
    inodes,             \* inode number -> content
    unreadable,         \* inodes that cannot be opened for reading
    readOnly,           \* inodes that cannot be opened for writing
    dirWritable,        \* may entries of port/iOS be created and removed
    shAvailable,        \* can `sh` be spawned
    artifact,           \* did a child leave a library under lib/iOS/
    pc,                 \* per process: the statement about to run
    err,                \* per process: the error that ended the run
    cwd,                \* per process: working directory
    build_temp_file,    \* per process: the global of lines 6 and 36
    origin_build_file,  \* per process: read handle of line 15
    new_file,           \* per process: write handle of line 18
    line,               \* per process: the global `line` of the loop
    new_lines,          \* per process: the list of line 17
    child,              \* per process: the sh child of line 37
    exitCode,           \* per process: what call() returned
    removed             \* per process: inode unlinked by line 38 (0: none)

vars == <<fs, inodes, unreadable, readOnly, dirWritable, shAvailable, artifact,
          pc, err, cwd, build_temp_file, origin_build_file, new_file, line,
          new_lines, child, exitCode, removed>>

(***************************************************************************)
(* Bounds of the model.                                                    *)
(***************************************************************************)
MaxChunks == 3

Procs == {1, 2}

(***************************************************************************)
(* Module constants, lines 4-13.                                           *)
(***************************************************************************)
assimp_dir == <<"assimpLib">>

join(a, b) == a \o b

build_file == join(assimp_dir, <<"port", "iOS", "build.sh">>)

build_temp_file_0 == join(assimp_dir, <<"port", "iOS", "build_current.sh">>)

arch_flag_name_device ==
    <<"B","U","I","L","D","_","A","R","C","H","S","_","D","E","V","I","C","E">>

\* The device name pasted for the simulator name.
arch_flag_name_simulator_SameAsDevice ==
    <<"B","U","I","L","D","_","A","R","C","H","S","_","D","E","V","I","C","E">>

arch_flag_name_simulator ==
    <<"B","U","I","L","D","_","A","R","C","H","S","_",
      "S","I","M","U","L","A","T","O","R">>

valid_archs_device == <<"a","r","m","6","4","e"," ","a","r","m","6","4">>

valid_archs_simulator == <<"x","8","6","_","6","4">>

(***************************************************************************)
(* Paths.                                                                  *)
(***************************************************************************)
dirname(p) == SubSeq(p, 1, Len(p) - 1)

basename(p) == <<p[Len(p)]>>

Resolve(dir, rel) == dir \o rel

LaunchDir == <<>>

SourcePath == Resolve(LaunchDir, build_file)

TempPath == Resolve(LaunchDir, build_temp_file_0)

\* A file of the same base name in the launch directory.
DecoyPath == Resolve(LaunchDir, basename(build_temp_file_0))

(***************************************************************************)
(* Text helpers.                                                           *)
(***************************************************************************)
\* A substring test in place of the prefix test.
startswith_Contains(s, prefix) ==
    \E i \in 0..(Len(s) - Len(prefix)) :
        SubSeq(s, i + 1, i + Len(prefix)) = prefix

startswith(s, prefix) ==
    /\ Len(prefix) <= Len(s)
    /\ SubSeq(s, 1, Len(prefix)) = prefix

\* The replacement line without its newline.
check_line_from_parts_NoNewline(ln, left, right) ==
    IF startswith(ln, left)
    THEN left \o <<"=", "\"">> \o right \o <<"\"">>
    ELSE ln

\* Lines 21-24; the global `line` the function reads is the parameter ln.
check_line_from_parts(ln, left, right) ==
    IF startswith(ln, left)
    THEN left \o <<"=", "\"">> \o right \o <<"\"", "\n">>
    ELSE ln

\* Index of the last character of the line that starts after position pos.
LineEnd(content, pos) ==
    IF \E i \in (pos + 1)..Len(content) : content[i] = "\n"
    THEN CHOOSE i \in (pos + 1)..Len(content) :
            /\ content[i] = "\n"
            /\ \A j \in (pos + 1)..(i - 1) : content[j] # "\n"
    ELSE Len(content)

\* What iterating a text file yields: the lines, each with its newline.
RECURSIVE SplitLines(_)
SplitLines(content) ==
    IF content = <<>> THEN <<>>
    ELSE LET e == LineEnd(content, 0)
         IN  <<SubSeq(content, 1, e)>>
                 \o SplitLines(SubSeq(content, e + 1, Len(content)))

\* What writelines emits: the strings one after the other, nothing added.
RECURSIVE Concat(_)
Concat(ls) == IF ls = <<>> THEN <<>> ELSE Head(ls) \o Concat(Tail(ls))

\* A write of buf at offset 0 of a file holding content.
WriteAt0(content, buf) ==
    buf \o SubSeq(content, Len(buf) + 1, Len(content))

\* The body of the loop, lines 28-29, on one line.
RewriteLine(ln) ==
    check_line_from_parts(
        check_line_from_parts(ln, arch_flag_name_device, valid_archs_device),
        arch_flag_name_simulator, valid_archs_simulator)

\* The loop of lines 27-30 and the writelines of line 32 on a whole file.
RewriteFile(content) ==
    LET ls == SplitLines(content)
    IN  Concat([i \in 1..Len(ls) |-> RewriteLine(ls[i])])

(***************************************************************************)
(* The scripts the source path may hold.                                   *)
(***************************************************************************)
Chunks ==
    { arch_flag_name_device,
      arch_flag_name_simulator,
      <<"=","o","l","d","_","v","a","l","u","e">>,
      <<"_","E","X","T","R","A","=","f","o","o">>,
      <<"\n">>,
      <<"x">> }

RECURSIVE ChunkFiles(_)
ChunkFiles(n) ==
    IF n = 0 THEN {<<>>}
    ELSE LET prev == ChunkFiles(n - 1)
         IN  prev \cup {f \o c : f \in prev, c \in Chunks}

EndToEndScript ==
    arch_flag_name_device \o <<"=","a","r","m","6","4","\n">>
        \o arch_flag_name_simulator \o <<"=","i","3","8","6","\n">>

Sources == ChunkFiles(MaxChunks) \cup {EndToEndScript}

SourcesTwo ==
    {EndToEndScript, arch_flag_name_device \o <<"\n">> \o <<"x">>}

StaleScript == <<"o","l","d","\n","o","l","d","\n","o","l","d","\n">>

DecoyScript == <<"d","\n">>

\* Inode numbers of the files present at the start.
InitialInodes == [decoy |-> 1, source |-> 2, stale |-> 3]

(***************************************************************************)
(* State after the module constants are bound, before line 15 runs.        *)
(***************************************************************************)
NoHandle == [ino |-> 0, pos |-> 0, buf |-> <<>>, open |-> FALSE]

NoChild == [state |-> "none", script |-> 0, saw |-> <<>>]

InitWith(srcs) ==
    /\ \E content \in srcs,
          srcMode \in {"ok", "missing", "unreadable"},
          tmpMode \in {"absent", "stale", "readonly"} :
          /\ srcMode # "ok" => content = EndToEndScript
          /\ inodes = <<DecoyScript, content,
                        IF tmpMode = "absent" THEN <<>> ELSE StaleScript>>
          /\ fs = [p \in {DecoyPath}
                          \cup (IF srcMode = "missing" THEN {} ELSE {SourcePath})
                          \cup (IF tmpMode = "absent" THEN {} ELSE {TempPath})
                     |-> IF p = DecoyPath THEN InitialInodes.decoy
                         ELSE IF p = SourcePath THEN InitialInodes.source ELSE InitialInodes.stale]
          /\ unreadable = IF srcMode = "unreadable" THEN {InitialInodes.source} ELSE {}
          /\ readOnly = IF tmpMode = "readonly" THEN {InitialInodes.stale} ELSE {}
    /\ dirWritable \in BOOLEAN
    /\ shAvailable \in BOOLEAN
    /\ artifact = FALSE
    /\ pc = [p \in Procs |-> "open_src"]
    /\ err = [p \in Procs |-> "none"]
    /\ cwd = [p \in Procs |-> LaunchDir]
    /\ build_temp_file = [p \in Procs |-> build_temp_file_0]
    /\ origin_build_file = [p \in Procs |-> NoHandle]
    /\ new_file = [p \in Procs |-> NoHandle]
    /\ line = [p \in Procs |-> <<>>]
    /\ new_lines = [p \in Procs |-> <<>>]
    /\ child = [p \in Procs |-> NoChild]
    /\ exitCode = [p \in Procs |-> -1]
    /\ removed = [p \in Procs |-> 0]

Init == InitWith(Sources)

InitTwo == InitWith(SourcesTwo)

Exists(path) == path \in DOMAIN fs

Fail(p, e) ==
    /\ pc' = [pc EXCEPT ![p] = "failed"]
    /\ err' = [err EXCEPT ![p] = e]

Goto(p, label) ==
    /\ pc' = [pc EXCEPT ![p] = label]
    /\ UNCHANGED err

(***************************************************************************)
(* The statements of the script, one action each.                          *)
(***************************************************************************)
\* The temporary file opened for writing before the source is opened.
OpenSource_TempFirst(p) ==
    /\ pc[p] = "open_src"
    /\ LET path == Resolve(cwd[p], build_file)
           temp == Resolve(cwd[p], build_temp_file[p])
       IN  IF Exists(path) /\ fs[path] \notin unreadable
           THEN /\ origin_build_file' = [origin_build_file EXCEPT ![p] =
                       [ino |-> fs[path], pos |-> 0, buf |-> <<>>, open |-> TRUE]]
                /\ Goto(p, "open_tmp")
                /\ UNCHANGED inodes
           ELSE /\ Fail(p, "FileAccessError")
                /\ inodes' = IF Exists(temp) /\ fs[temp] \notin readOnly
                             THEN [inodes EXCEPT ![fs[temp]] = <<>>]
                             ELSE inodes
                /\ UNCHANGED origin_build_file
    /\ UNCHANGED <<fs, unreadable, readOnly, dirWritable, shAvailable,
                   artifact, cwd, build_temp_file, new_file, line, new_lines,
                   child, exitCode, removed>>

\* Line 15: origin_build_file = open(build_file)
OpenSource(p) ==
    /\ pc[p] = "open_src"
    /\ LET path == Resolve(cwd[p], build_file)
       IN  IF Exists(path) /\ fs[path] \notin unreadable
           THEN /\ origin_build_file' = [origin_build_file EXCEPT ![p] =
                       [ino |-> fs[path], pos |-> 0, buf |-> <<>>, open |-> TRUE]]
                /\ Goto(p, "open_tmp")
           ELSE /\ Fail(p, "FileAccessError")
                /\ UNCHANGED origin_build_file
    /\ UNCHANGED <<fs, inodes, unreadable, readOnly, dirWritable, shAvailable,
                   artifact, cwd, build_temp_file, new_file, line, new_lines,
                   child, exitCode, removed>>

\* The temporary file opened for update ('r+'), which does not truncate it.
OpenTemp_NoTruncate(p) ==
    /\ pc[p] = "open_tmp"
    /\ LET path == Resolve(cwd[p], build_temp_file[p])
       IN  IF Exists(path) /\ fs[path] \notin readOnly
           THEN /\ new_file' = [new_file EXCEPT ![p] =
                       [ino |-> fs[path], pos |-> 0, buf |-> <<>>, open |-> TRUE]]
                /\ Goto(p, "loop")
           ELSE /\ Fail(p, "FileAccessError")
                /\ UNCHANGED new_file
    /\ UNCHANGED <<fs, inodes, unreadable, readOnly, dirWritable, shAvailable,
                   artifact, cwd, build_temp_file, origin_build_file, line,
                   new_lines, child, exitCode, removed>>

\* Line 18: new_file = open(build_temp_file, 'w'): truncate or create.
OpenTemp(p) ==
    /\ pc[p] = "open_tmp"
    /\ LET path == Resolve(cwd[p], build_temp_file[p])
       IN  IF Exists(path)
           THEN IF fs[path] \notin readOnly
                THEN /\ inodes' = [inodes EXCEPT ![fs[path]] = <<>>]
                     /\ new_file' = [new_file EXCEPT ![p] =
                            [ino |-> fs[path], pos |-> 0, buf |-> <<>>, open |-> TRUE]]
                     /\ Goto(p, "loop")
                     /\ UNCHANGED fs
                ELSE /\ Fail(p, "FileAccessError")
                     /\ UNCHANGED <<fs, inodes, new_file>>
           ELSE IF dirWritable
                THEN /\ inodes' = Append(inodes, <<>>)
                     /\ fs' = [q \in DOMAIN fs \cup {path} |->
                                  IF q = path THEN Len(inodes) + 1 ELSE fs[q]]
                     /\ new_file' = [new_file EXCEPT ![p] =
                            [ino |-> Len(inodes) + 1, pos |-> 0, buf |-> <<>>,
                             open |-> TRUE]]
                     /\ Goto(p, "loop")
                ELSE /\ Fail(p, "FileAccessError")
                     /\ UNCHANGED <<fs, inodes, new_file>>
    /\ UNCHANGED <<unreadable, readOnly, dirWritable, shAvailable, artifact, cwd,
                   build_temp_file, origin_build_file, line, new_lines, child,
                   exitCode, removed>>

\* Line 27: for line in lines: the next line of the file, or the end of the loop.
NextLine(p) ==
    /\ pc[p] = "loop"
    /\ LET h == origin_build_file[p]
           content == inodes[h.ino]
       IN  IF h.pos < Len(content)
           THEN LET e == LineEnd(content, h.pos)
                IN  /\ line' = [line EXCEPT ![p] = SubSeq(content, h.pos + 1, e)]
                    /\ origin_build_file' = [origin_build_file EXCEPT ![p].pos = e]
                    /\ Goto(p, "check_dev")
           ELSE /\ Goto(p, "writelines")
                /\ UNCHANGED <<line, origin_build_file>>
    /\ UNCHANGED <<fs, inodes, unreadable, readOnly, dirWritable, shAvailable,
                   artifact, cwd, build_temp_file, new_file, new_lines, child,
                   exitCode, removed>>

\* Line 28
CheckDevice(p) ==
    /\ pc[p] = "check_dev"
    /\ line' = [line EXCEPT ![p] =
           check_line_from_parts(line[p], arch_flag_name_device, valid_archs_device)]
    /\ Goto(p, "check_sim")
    /\ UNCHANGED <<fs, inodes, unreadable, readOnly, dirWritable, shAvailable,
                   artifact, cwd, build_temp_file, origin_build_file, new_file,
                   new_lines, child, exitCode, removed>>

\* Line 29
CheckSimulator(p) ==
    /\ pc[p] = "check_sim"
    /\ line' = [line EXCEPT ![p] =
           check_line_from_parts(line[p], arch_flag_name_simulator,
                                 valid_archs_simulator)]
    /\ Goto(p, "append")
    /\ UNCHANGED <<fs, inodes, unreadable, readOnly, dirWritable, shAvailable,
                   artifact, cwd, build_temp_file, origin_build_file, new_file,
                   new_lines, child, exitCode, removed>>

\* Line 30
AppendLine(p) ==
    /\ pc[p] = "append"
    /\ new_lines' = [new_lines EXCEPT ![p] = Append(new_lines[p], line[p])]
    /\ Goto(p, "loop")
    /\ UNCHANGED <<fs, inodes, unreadable, readOnly, dirWritable, shAvailable,
                   artifact, cwd, build_temp_file, origin_build_file, new_file,
                   line, child, exitCode, removed>>

\* Line 32: new_file.writelines(new_lines), into the handle's buffer.
WriteLines(p) ==
    /\ pc[p] = "writelines"
    /\ new_file' = [new_file EXCEPT ![p].buf = @ \o Concat(new_lines[p])]
    /\ Goto(p, "close_new")
    /\ UNCHANGED <<fs, inodes, unreadable, readOnly, dirWritable, shAvailable,
                   artifact, cwd, build_temp_file, origin_build_file, line,
                   new_lines, child, exitCode, removed>>

\* The close of the written file left out: the buffer is not written.
CloseNew_Missing(p) ==
    /\ pc[p] = "close_new"
    /\ Goto(p, "close_origin")
    /\ UNCHANGED <<fs, inodes, unreadable, readOnly, dirWritable, shAvailable,
                   artifact, cwd, build_temp_file, origin_build_file, new_file,
                   line, new_lines, child, exitCode, removed>>

\* Line 33: new_file.close() writes the buffer to the handle's file.
CloseNew(p) ==
    /\ pc[p] = "close_new"
    /\ inodes' = [inodes EXCEPT ![new_file[p].ino] = WriteAt0(@, new_file[p].buf)]
    /\ new_file' = [new_file EXCEPT ![p].buf = <<>>, ![p].open = FALSE]
    /\ Goto(p, "close_origin")
    /\ UNCHANGED <<fs, unreadable, readOnly, dirWritable, shAvailable, artifact,
                   cwd, build_temp_file, origin_build_file, line, new_lines,
                   child, exitCode, removed>>

\* Line 34: origin_build_file.close()
CloseOrigin(p) ==
    /\ pc[p] = "close_origin"
    /\ origin_build_file' = [origin_build_file EXCEPT ![p].open = FALSE]
    /\ Goto(p, "chdir")
    /\ UNCHANGED <<fs, inodes, unreadable, readOnly, dirWritable, shAvailable,
                   artifact, cwd, build_temp_file, new_file, line, new_lines,
                   child, exitCode, removed>>

\* The change of directory left out.
Chdir_Missing(p) ==
    /\ pc[p] = "chdir"
    /\ Goto(p, "basename")
    /\ UNCHANGED <<fs, inodes, unreadable, readOnly, dirWritable, shAvailable,
                   artifact, cwd, build_temp_file, origin_build_file, new_file,
                   line, new_lines, child, exitCode, removed>>

\* Line 35: os.chdir(os.path.dirname(build_temp_file))
Chdir(p) ==
    /\ pc[p] = "chdir"
    /\ cwd' = [cwd EXCEPT ![p] = Resolve(cwd[p], dirname(build_temp_file[p]))]
    /\ Goto(p, "basename")
    /\ UNCHANGED <<fs, inodes, unreadable, readOnly, dirWritable, shAvailable,
                   artifact, build_temp_file, origin_build_file, new_file, line,
                   new_lines, child, exitCode, removed>>

\* The path kept as it was, relative to the directory just left.
Basename_Missing(p) ==
    /\ pc[p] = "basename"
    /\ Goto(p, "call")
    /\ UNCHANGED <<fs, inodes, unreadable, readOnly, dirWritable, shAvailable,
                   artifact, cwd, build_temp_file, origin_build_file, new_file,
                   line, new_lines, child, exitCode, removed>>

\* Line 36: build_temp_file = os.path.basename(build_temp_file)
Basename(p) ==
    /\ pc[p] = "basename"
    /\ build_temp_file' = [build_temp_file EXCEPT ![p] = basename(build_temp_file[p])]
    /\ Goto(p, "call")
    /\ UNCHANGED <<fs, inodes, unreadable, readOnly, dirWritable, shAvailable,
                   artifact, cwd, origin_build_file, new_file, line, new_lines,
                   child, exitCode, removed>>

\* Line 37, first half: call(["sh", build_temp_file]) spawns sh in the working
\* directory; sh opens the script it was given, or finds none.
Call(p) ==
    /\ pc[p] = "call"
    /\ IF shAvailable
       THEN /\ LET path == Resolve(cwd[p], build_temp_file[p])
               IN  child' = [child EXCEPT ![p] =
                       IF Exists(path)
                       THEN [state |-> "running", script |-> fs[path],
                             saw |-> inodes[fs[path]]]
                       ELSE [state |-> "running", script |-> 0, saw |-> <<>>]]
            /\ Goto(p, "wait")
       ELSE /\ Fail(p, "SubprocessError")
            /\ UNCHANGED child
    /\ UNCHANGED <<fs, inodes, unreadable, readOnly, dirWritable, shAvailable,
                   artifact, cwd, build_temp_file, origin_build_file, new_file,
                   line, new_lines, exitCode, removed>>

\* Line 37, second half: the child terminates and call() returns its status,
\* which the script discards.  sh without a script to read exits with 127.
ChildExit(p) ==
    /\ pc[p] = "wait"
    /\ child[p].state = "running"
    /\ \E code \in {0, 1}, built \in BOOLEAN :
          /\ exitCode' = [exitCode EXCEPT ![p] =
                 IF child[p].script = 0 THEN 127 ELSE code]
          /\ artifact' = (artifact \/ (built /\ child[p].script # 0))
    /\ child' = [child EXCEPT ![p].state = "exited"]
    /\ Goto(p, "remove")
    /\ UNCHANGED <<fs, inodes, unreadable, readOnly, dirWritable, shAvailable,
                   cwd, build_temp_file, origin_build_file, new_file, line,
                   new_lines, removed>>

\* Line 38: os.remove(build_temp_file)
Remove(p) ==
    /\ pc[p] = "remove"
    /\ LET path == Resolve(cwd[p], build_temp_file[p])
       IN  IF Exists(path) /\ dirWritable
           THEN /\ fs' = [q \in DOMAIN fs \ {path} |-> fs[q]]
                /\ removed' = [removed EXCEPT ![p] = fs[path]]
                /\ Goto(p, "done")
           ELSE /\ Fail(p, "FileAccessError")
                /\ UNCHANGED <<fs, removed>>
    /\ UNCHANGED <<inodes, unreadable, readOnly, dirWritable, shAvailable,
                   artifact, cwd, build_temp_file, origin_build_file, new_file,
                   line, new_lines, child, exitCode>>

Run(p) ==
    \/ OpenSource(p)
    \/ OpenTemp(p)
    \/ NextLine(p)
    \/ CheckDevice(p)
    \/ CheckSimulator(p)
    \/ AppendLine(p)
    \/ WriteLines(p)
    \/ CloseNew(p)
    \/ CloseOrigin(p)
    \/ Chdir(p)
    \/ Basename(p)
    \/ Call(p)
    \/ ChildExit(p)
    \/ Remove(p)

\* One run of the script.
Next == Run(1)

Spec == Init /\ [][Next]_vars

\* Two runs of the script started from the same directory.
NextTwo == \E p \in Procs : Run(p)

SpecTwo == InitTwo /\ [][NextTwo]_vars

(***************************************************************************)
(* Vocabulary of the properties.                                           *)
(***************************************************************************)
SourceContent == inodes[InitialInodes.source]

\* prefix is an initial segment of s, character by character.
IsPrefixOf(prefix, s) ==
    /\ Len(prefix) <= Len(s)
    /\ \A i \in 1..Len(prefix) : s[i] = prefix[i]

\* What the contract of rewriteLine asks of one flag/value pair.
Rewritten(ln, flag, value) ==
    IF IsPrefixOf(flag, ln)
    THEN flag \o <<"=", "\"">> \o value \o <<"\"", "\n">>
    ELSE ln

\* The source line the loop body of process p is working on.
CurrentSourceLine(p) == SplitLines(SourceContent)[Len(new_lines[p]) + 1]

\* The written file is closed and not yet removed.
Patched(p) ==
    pc[p] \in {"close_origin", "chdir", "basename", "call", "wait", "remove"}

TempContent(p) == inodes[new_file[p].ino]

Recognized(ln) ==
    \/ IsPrefixOf(arch_flag_name_device, ln)
    \/ IsPrefixOf(arch_flag_name_simulator, ln)

DeviceLineOld ==
    <<"B","U","I","L","D","_","A","R","C","H","S","_","D","E","V","I","C",
      "E","=","o","l","d","_","v","a","l","u","e">>

DeviceLineNew ==
    <<"B","U","I","L","D","_","A","R","C","H","S","_","D","E","V","I","C",
      "E","=","\"","a","r","m","6","4","e"," ","a","r","m","6","4","\"",
      "\n">>

SimulatorLineOld ==
    <<"B","U","I","L","D","_","A","R","C","H","S","_","S","I","M","U","L",
      "A","T","O","R","=","o","l","d","_","v","a","l","u","e">>

SimulatorLineNew ==
    <<"B","U","I","L","D","_","A","R","C","H","S","_","S","I","M","U","L",
      "A","T","O","R","=","\"","x","8","6","_","6","4","\"","\n">>

DeviceExtraLine ==
    <<"B","U","I","L","D","_","A","R","C","H","S","_","D","E","V","I","C",
      "E","_","E","X","T","R","A","=","f","o","o","\n">>

(***************************************************************************)
(* C1: check_line_from_parts is a prefix test.  After the device check the *)
(* line is the device assignment when the source line began with the       *)
(* device flag name, however the line went on, and the source line itself  *)
(* otherwise; the simulator check does the same to its input with the      *)
(* simulator pair.  BUILD_ARCHS_DEVICE=old_value becomes                   *)
(* BUILD_ARCHS_DEVICE="arm64e arm64"\n and BUILD_ARCHS_SIMULATOR=old_value *)
(* becomes BUILD_ARCHS_SIMULATOR="x86_64"\n.                               *)
(***************************************************************************)
C1_PrefixTest ==
    /\ pc[1] = "check_dev" => line[1] = CurrentSourceLine(1)
    /\ pc[1] = "check_sim" =>
          /\ line[1] = Rewritten(CurrentSourceLine(1), arch_flag_name_device,
                                 valid_archs_device)
          /\ CurrentSourceLine(1) = DeviceLineOld => line[1] = DeviceLineNew
    /\ pc[1] = "append" =>
          /\ line[1] = Rewritten(Rewritten(CurrentSourceLine(1),
                                           arch_flag_name_device,
                                           valid_archs_device),
                                 arch_flag_name_simulator, valid_archs_simulator)
          /\ CurrentSourceLine(1) = SimulatorLineOld => line[1] = SimulatorLineNew

\* The device check has replaced BUILD_ARCHS_DEVICE_EXTRA=foo.
C1_Witness ==
    /\ pc[1] = "check_sim"
    /\ CurrentSourceLine(1) = DeviceExtraLine
    /\ line[1] = DeviceLineNew

(***************************************************************************)
(* C2: the rewritten script in the temporary file has as many lines as the *)
(* source, in the same order, and its i-th line differs from the i-th      *)
(* source line only if that source line began with one of the two flag     *)
(* names, whatever the temporary file held before the run.                 *)
(***************************************************************************)
C2_LineCount ==
    Patched(1) =>
        LET out == SplitLines(TempContent(1))
            src == SplitLines(SourceContent)
        IN  /\ Len(out) = Len(src)
            /\ \A i \in 1..Len(src) : out[i] # src[i] => Recognized(src[i])

\* A stale temporary file of three lines was overwritten by a script of two
\* lines of which one changed.
C2_Witness ==
    /\ pc[1] = "call"
    /\ new_file[1].ino = InitialInodes.stale
    /\ Len(SplitLines(SourceContent)) = 2
    /\ TempContent(1) # SourceContent

(***************************************************************************)
(* C3: the full rewrite is idempotent: rewriting the rewritten script      *)
(* yields the rewritten script.                                            *)
(***************************************************************************)
C3_Idempotent ==
    Patched(1) => RewriteFile(TempContent(1)) = TempContent(1)

\* The script written differs from the source, so the rewrite did something.
C3_Witness ==
    /\ pc[1] = "chdir"
    /\ TempContent(1) # SourceContent
    /\ Len(SplitLines(SourceContent)) = 2

(***************************************************************************)
(* C4: if the invoked script exits with a non-zero status, the run fails   *)
(* with SubprocessError and the temporary file is removed.                 *)
(***************************************************************************)
C4_NonZeroExitFails ==
    (pc[1] \in {"done", "failed"} /\ exitCode[1] > 0) =>
        /\ pc[1] = "failed"
        /\ err[1] = "SubprocessError"
        /\ ~Exists(TempPath)

(***************************************************************************)
(* C5: if the source script is missing or unreadable the run fails with a  *)
(* file-access error before any other effect: the temporary file is        *)
(* neither created nor truncated, the working directory is unchanged and   *)
(* no subprocess is invoked.                                               *)
(***************************************************************************)
C5_SourceMissing ==
    (~Exists(SourcePath) \/ InitialInodes.source \in unreadable) =>
        /\ pc[1] \in {"open_src", "failed"}
        /\ pc[1] = "failed" => err[1] = "FileAccessError"
        /\ new_file[1] = NoHandle
        /\ Len(inodes) = InitialInodes.stale
        /\ Exists(TempPath) =>
              /\ fs[TempPath] = InitialInodes.stale
              /\ inodes[fs[TempPath]] = StaleScript
        /\ ~Exists(TempPath) => inodes[InitialInodes.stale] = <<>>
        /\ cwd[1] = LaunchDir
        /\ child[1] = NoChild

\* The run failed on a missing source while a temporary file was there.
C5_Witness ==
    /\ pc[1] = "failed"
    /\ ~Exists(SourcePath)
    /\ Exists(TempPath)

(***************************************************************************)
(* C6: when a run completes normally the temporary file it wrote no longer *)
(* exists, whatever the child's exit status and whether or not it built    *)
(* anything; the file removed under its base name is the file written      *)
(* under its original path.                                                *)
(***************************************************************************)
C6_TempRemoved ==
    pc[1] = "done" =>
        /\ ~Exists(TempPath)
        /\ removed[1] = new_file[1].ino
        /\ \A q \in DOMAIN fs : fs[q] # new_file[1].ino
        /\ Exists(DecoyPath)

\* A run completed after a child that failed and built nothing.
C6_Witness ==
    /\ pc[1] = "done"
    /\ exitCode[1] = 1
    /\ ~artifact

(***************************************************************************)
(* C7: on every terminating path on which the temporary file was created,  *)
(* error paths included, the temporary file does not exist when the run    *)
(* terminates.                                                             *)
(***************************************************************************)
C7_NoStaleTemp ==
    (pc[1] \in {"done", "failed"} /\ new_file[1].ino > InitialInodes.stale) => ~Exists(TempPath)

(***************************************************************************)
(* C8: the steps of a run are ordered: the rewritten lines are written and *)
(* both handles closed before the working directory changes; the directory *)
(* is the temporary file's before the script is invoked; the run waits for *)
(* the child; the temporary file is removed only after the child ended.    *)
(* So a running child has the complete rewritten script before it.         *)
(***************************************************************************)
C8_StepOrder ==
    /\ cwd[1] # LaunchDir =>
          /\ ~new_file[1].open
          /\ ~origin_build_file[1].open
          /\ new_file[1].ino # 0
          /\ TempContent(1) = RewriteFile(SourceContent)
    /\ child[1].state # "none" => cwd[1] = dirname(TempPath)
    /\ child[1].state = "running" =>
          /\ pc[1] = "wait"
          /\ Exists(TempPath)
          /\ fs[TempPath] = new_file[1].ino
          /\ child[1].script = new_file[1].ino
          /\ child[1].saw = RewriteFile(SourceContent)
          /\ removed[1] = 0
    /\ (new_file[1].ino # 0 /\ ~Exists(TempPath)) => child[1].state = "exited"
    /\ removed[1] # 0 => child[1].state = "exited"

\* The child is running the patched end-to-end script.
C8_Witness ==
    /\ child[1].state = "running"
    /\ SourceContent = EndToEndScript
    /\ child[1].saw = DeviceLineNew \o SimulatorLineNew

(***************************************************************************)
(* C9: for every line the composition device-then-simulator gives what two *)
(* independent checks of the source line give, and what the composition in *)
(* the opposite order gives, because no line, source or rewritten, starts  *)
(* with both flag names.                                                   *)
(***************************************************************************)
IndependentChecks(ln) ==
    IF IsPrefixOf(arch_flag_name_device, ln)
    THEN check_line_from_parts(ln, arch_flag_name_device, valid_archs_device)
    ELSE IF IsPrefixOf(arch_flag_name_simulator, ln)
         THEN check_line_from_parts(ln, arch_flag_name_simulator,
                                    valid_archs_simulator)
         ELSE ln

OppositeOrder(ln) ==
    check_line_from_parts(
        check_line_from_parts(ln, arch_flag_name_simulator, valid_archs_simulator),
        arch_flag_name_device, valid_archs_device)

StartsWithBoth(ln) ==
    /\ IsPrefixOf(arch_flag_name_device, ln)
    /\ IsPrefixOf(arch_flag_name_simulator, ln)

C9_OrderIrrelevant ==
    pc[1] = "append" =>
        /\ line[1] = IndependentChecks(CurrentSourceLine(1))
        /\ line[1] = OppositeOrder(CurrentSourceLine(1))
        /\ ~StartsWithBoth(CurrentSourceLine(1))
        /\ ~StartsWithBoth(line[1])

\* A line naming both flags, the simulator's first, went through both checks.
C9_Witness ==
    /\ pc[1] = "append"
    /\ CurrentSourceLine(1) = arch_flag_name_simulator \o arch_flag_name_device
    /\ line[1] = SimulatorLineNew

(***************************************************************************)
(* C10: two runs on the same paths are unsafe.  A run is disturbed when    *)
(* its child finds no script or another script than the complete rewrite,  *)
(* when the script changes under its running child, or when its removal    *)
(* fails although the directory is writable.  Such states are reached, and *)
(* only once the other run has opened the temporary file.                  *)
(***************************************************************************)
Other(p) == CHOOSE q \in Procs : q # p

ChildFoundNoScript(p) == child[p].state # "none" /\ child[p].script = 0

ChildGotOtherScript(p) ==
    /\ child[p].state # "none"
    /\ child[p].script # 0
    /\ child[p].saw # RewriteFile(SourceContent)

ScriptChangedUnderChild(p) ==
    /\ child[p].state = "running"
    /\ child[p].script # 0
    /\ inodes[child[p].script] # child[p].saw

RemoveFailed(p) ==
    /\ pc[p] = "failed"
    /\ child[p].state = "exited"
    /\ dirWritable

Disturbed(p) ==
    \/ ChildFoundNoScript(p)
    \/ ChildGotOtherScript(p)
    \/ ScriptChangedUnderChild(p)
    \/ RemoveFailed(p)

C10_OnlyConcurrentRunsDisturb ==
    \A p \in Procs : Disturbed(p) => new_file[Other(p)].ino # 0

\* Run 2 removed the shared file first: the child of run 1 found no script
\* and the removal of run 1 failed.
C10_Witness ==
    /\ pc[2] = "done"
    /\ ChildFoundNoScript(1)
    /\ RemoveFailed(1)
    /\ err[1] = "FileAccessError"

\* Run 2 truncated the script that the child of run 1 is executing.
C10_TruncatedUnderChild ==
    /\ ScriptChangedUnderChild(1)
    /\ pc[2] = "loop"

====
